---- MODULE Spec2Model ----
(***************************************************************************)
(* A model of BlingTokenManager (src/token_manager.py): the credential     *)
(* record in memory and on disk, the recovery state, the lock, the two     *)
(* renewal strategies, the recovery ladder, the notification sink and the  *)
(* background renewal loop, run by asyncio tasks on one event-loop thread. *)
(*                                                                         *)
(* Scheduling.  The manager runs on a single event loop.  A task keeps the *)
(* thread until it reaches a real suspension point: asyncio.sleep (the     *)
(* retry pause of refresh_token, the sleep of the renewal job) or the      *)
(* aiohttp request of the messaging client.  requests.post is a blocking   *)
(* call: while a task waits for the authorization server or the recovery   *)
(* webhook no other task runs.  Every action below runs one task from such *)
(* a point to the next one.                                                *)
(*                                                                         *)
(* Time.  now is the clock in seconds.  It advances in steps of TickSeconds*)
(* while the event loop is idle; the code between two suspension points,   *)
(* the HTTP exchanges and the 2 s / 4 s retry pauses are shorter than one  *)
(* step.  File writes succeed.                                             *)
(*                                                                         *)
(* renew_token.py is another process: it takes its steps at any time, also *)
(* while the event-loop thread of the manager is blocked.                  *)
(***************************************************************************)
EXTENDS Integers, Sequences, FiniteSets, TLC

VARIABLES
    now,      \* time.time() / datetime.now(), seconds
    mgr,      \* the BlingTokenManager object and its token file
    task,     \* the asyncio tasks: callers and the renewal job
    issued,   \* number of the last access token the authorization server issued
    ext,      \* the out-of-band renewal tool (renew_token.py), another process
    cfg,      \* constructor arguments: whatsapp client and webhook configured or not
    probe,    \* the last direct call of _is_token_expired_or_expiring_soon and its answer
    hist      \* history of the run, read only by the properties

vars == <<now, mgr, task, issued, ext, cfg, probe, hist>>

----------------------------------------------------------------------------
(* Bounds of the model *)

\* number of clock steps explored
MaxTicks == 3
\* number of the last access token the authorization server issues in a run
MaxTokens == 2
\* the authorization server stops failing renewals at this many consecutive failures
MaxFailures == 3

(* Program constants *)

max_failures_before_alert == 3
backoff_minutes == 15
max_backoff_minutes == 120
min_notification_interval == 30
FutureThreshold == 3600
ForcedAge == 19000
LongExpired == 43200
DefaultThreshold == 600
BackgroundThreshold == 1800
DeleteAfterFailures == 10
RetryAttempts == 3
check_interval == 900

\* the clock at construction, and the step of the clock
StartTime == 100000
TickSeconds == check_interval

\* expires_in of the records the authorization server issues
Lifetimes == {3600, 21600}

Callers == {"c1", "c2"}
Job == "job"
Tasks == Callers \cup {Job}
NoTask == "none"
NoTime == -1

Min(a, b) == IF a < b THEN a ELSE b

----------------------------------------------------------------------------
(* The credential record: a Python dict, here a function on its keys.      *)

NoneData == [py |-> "None"]
EmptyDict == [py |-> "{}"]
NoFile == [fs |-> "missing"]
BadFile == [fs |-> "unparsable"]

Falsy(d) == d = NoneData \/ d = EmptyDict
Has(d, k) == k \in DOMAIN d
WithKey(d, k, v) == [x \in DOMAIN d \cup {k} |-> IF x = k THEN v ELSE d[x]]

\* dict.get("access_token"); 0 stands for None
AccessTokenOf(d) == IF Falsy(d) \/ ~Has(d, "access_token") THEN 0 ELSE d.access_token

\* the JSON body of a 200 response plus created_at = now
TokenResponse(n, lifetime, with_refresh, t) ==
    IF with_refresh
    THEN [access_token |-> n, refresh_token |-> n, expires_in |-> lifetime, created_at |-> t]
    ELSE [access_token |-> n, expires_in |-> lifetime, created_at |-> t]

----------------------------------------------------------------------------
(* Token Validator *)

\* _is_token_expired_or_expiring_soon with < for <= at line 569
IsTokenExpiredStrictly(d, threshold_seconds, t) ==
    IF Falsy(d) THEN TRUE
    ELSE IF ~Has(d, "expires_in") \/ ~Has(d, "created_at") THEN TRUE
    ELSE LET expiry_timestamp == d.created_at + d.expires_in
             remaining_seconds == expiry_timestamp - t
         IN  remaining_seconds < threshold_seconds

IsTokenExpiredOrExpiringSoon(d, threshold_seconds, t) ==
    IF Falsy(d) THEN TRUE
    ELSE IF ~Has(d, "expires_in") \/ ~Has(d, "created_at") THEN TRUE
    ELSE LET expiry_timestamp == d.created_at + d.expires_in
             remaining_seconds == expiry_timestamp - t
         IN  remaining_seconds <= threshold_seconds

----------------------------------------------------------------------------
(* Token Store.  s is the manager record.                                  *)

Block(s) == [s EXCEPT !.hung = TRUE]

\* _update_env_file: mirrors access_token into BLING_API_KEY
UpdateEnvFile(s) ==
    IF Falsy(s.token_data) \/ ~Has(s.token_data, "access_token") THEN s
    ELSE [s EXCEPT !.env_api_key = s.token_data.access_token]

\* _save_token without lines 139-141: the recovery state is left as it was
SaveTokenKeepsRecoveryState(s) ==
    IF s.hung THEN s
    ELSE IF s.token_lock # NoTask THEN Block(s)
    ELSE UpdateEnvFile([s EXCEPT !.token_file = s.token_data, !.file_modified = TRUE])

\* _save_token: threading.Lock is not reentrant, acquire() on a held lock blocks the thread
SaveToken(s) ==
    IF s.hung THEN s
    ELSE IF s.token_lock # NoTask THEN Block(s)
    ELSE [UpdateEnvFile([s EXCEPT !.token_file = s.token_data, !.file_modified = TRUE])
            EXCEPT !.error_state = FALSE,
                   !.consecutive_failures = 0,
                   !.last_error_time = NoTime]

\* _load_token; it assigns and reads _token_data (lines 89-126) without taking
\* _token_lock, which unlocked_access records until the step is over
LoadToken(s, t) ==
    IF s.token_file = NoFile THEN s
    ELSE IF s.token_file = BadFile
         THEN [s EXCEPT !.file_modified = FALSE, !.token_data = EmptyDict,
                        !.unlocked_access = TRUE]
    ELSE LET s1 == [s EXCEPT !.file_modified = FALSE, !.token_data = s.token_file,
                             !.unlocked_access = TRUE]
             s2 == IF Has(s1.token_data, "created_at") /\ s1.token_data.created_at > t + FutureThreshold
                   THEN SaveToken([s1 EXCEPT !.token_data.created_at = t - ForcedAge])
                   ELSE s1
             s3 == IF ~Has(s2.token_data, "created_at")
                   THEN SaveToken([s2 EXCEPT !.token_data = WithKey(s2.token_data, "created_at", t - ForcedAge)])
                   ELSE s2
         IN  s3

----------------------------------------------------------------------------
(* Recovery/Backoff Controller *)

\* the window of line 219 without the min() of line 220
CurrentBackoffSecondsUncapped(failures) ==
    (backoff_minutes * 60 * (2 ^ failures)) \div 2

\* min(backoff_minutes * 2 ** (consecutive_failures - 1), max_backoff_minutes) * 60
CurrentBackoffSeconds(failures) ==
    Min((backoff_minutes * 60 * (2 ^ failures)) \div 2, max_backoff_minutes * 60)

\* _should_attempt_recovery with >= for > at line 226
ShouldAttemptRecoveryAtWindowEnd(s, t) ==
    IF ~s.error_state THEN [ok |-> TRUE, s |-> s]
    ELSE IF s.last_error_time = NoTime
         THEN [ok |-> TRUE, s |-> [s EXCEPT !.last_error_time = t]]
    ELSE LET elapsed == t - s.last_error_time
         IN  [ok |-> elapsed >= CurrentBackoffSeconds(s.consecutive_failures), s |-> s]

\* _should_attempt_recovery: the answer and the manager after the call
ShouldAttemptRecovery(s, t) ==
    IF ~s.error_state THEN [ok |-> TRUE, s |-> s]
    ELSE IF s.last_error_time = NoTime
         THEN [ok |-> TRUE, s |-> [s EXCEPT !.last_error_time = t]]
    ELSE LET elapsed == t - s.last_error_time
         IN  [ok |-> elapsed > CurrentBackoffSeconds(s.consecutive_failures), s |-> s]

----------------------------------------------------------------------------
(* Tasks.  A context c = [s, tr] is the manager and the running task; the  *)
(* operators below run the task's code on it.  pc names the point where a  *)
(* task waits; stack holds the points to return to.                        *)

\* waiting in requests.post, or going round the while loop of renewal_job without an
\* await (job_spin): the event-loop thread is busy
BlockingPcs == {"cc_post", "rf_post", "ac_post", "rec_webhook", "job_spin"}
\* suspended in an await, or not running at all
ParkedPcs == {"idle", "rf_sleep", "notify_send", "ac_send", "job_new", "job_sleep", "no_job", "blocked"}
WaitPcs == BlockingPcs \cup ParkedPcs

\* what a call gave its caller: a value, or an exception that left the call
NoResult == [ok |-> FALSE, token |-> 0, raised |-> FALSE]

NewTask(pc0) ==
    [pc |-> pc0, stack |-> << >>, rt |-> 0, attempt |-> 0, ret |-> FALSE,
     op |-> "none", res |-> NoResult, reqs |-> << >>, start_tok |-> 0, wake_at |-> 0,
     start_failures |-> 0]

Hang(c) == [c EXCEPT !.s.hung = TRUE, !.tr.pc = "blocked"]
Hold(c, t) == [c EXCEPT !.s.token_lock = t]
Release(c) == [c EXCEPT !.s.token_lock = NoTask]
Push(c, label) == [c EXCEPT !.tr.stack = <<label>> \o @]

\* return v to the caller's continuation
Ret(c, v) ==
    [c EXCEPT !.tr.pc = Head(c.tr.stack), !.tr.stack = Tail(c.tr.stack), !.tr.ret = v]

\* the end of a top-level call
Finish(c, ok, token) ==
    [c EXCEPT !.tr.pc = "idle", !.tr.stack = << >>, !.tr.rt = 0, !.tr.attempt = 0,
              !.tr.ret = FALSE, !.tr.res = [ok |-> ok, token |-> token, raised |-> FALSE]]

\* _try_client_credentials up to its requests.post (client id and secret are configured)
CallTryCc(c, label) ==
    [Push(c, label) EXCEPT !.tr.pc = "cc_post", !.tr.reqs = Append(@, "cc")]

\* refresh_token, lines 283-306: the refresh-grant request
PostRefresh(c) ==
    [c EXCEPT !.tr.pc = "rf_post", !.tr.reqs = Append(@, "rg")]

\* _notify_token_failure up to the await of send_message
CallNotify(c, label, n) ==
    IF /\ c.s.last_notification_time # NoTime
       /\ n - c.s.last_notification_time < min_notification_interval * 60
    THEN [c EXCEPT !.tr.pc = label]
    ELSE IF cfg.whatsapp
         THEN [Push(c, label) EXCEPT !.tr.pc = "notify_send"]
         ELSE [c EXCEPT !.tr.pc = label]

\* _attempt_token_recovery, step 1
AttemptTokenRecovery(c, label) == CallTryCc(Push(c, label), "rec_cc")

\* _attempt_token_recovery, step 3, without the failure threshold of line 442
DeleteStepWithoutThreshold(c, n) ==
    IF c.s.token_file # NoFile
    THEN LET c1 == [c EXCEPT !.s.backup_file = c.s.token_file, !.s.token_file = NoFile]
         IN  IF c1.s.token_lock # NoTask THEN Hang(c1)
             ELSE CallNotify([c1 EXCEPT !.s.token_data = NoneData], "rec_notified", n)
    ELSE Ret(c, FALSE)

\* _attempt_token_recovery, step 3: back up and delete the token file
DeleteStep(c, n) ==
    IF c.s.consecutive_failures > DeleteAfterFailures /\ c.s.token_file # NoFile
    THEN LET c1 == [c EXCEPT !.s.backup_file = c.s.token_file, !.s.token_file = NoFile]
         IN  IF c1.s.token_lock # NoTask THEN Hang(c1)
             ELSE CallNotify([c1 EXCEPT !.s.token_data = NoneData], "rec_notified", n)
    ELSE Ret(c, FALSE)

\* refresh_token without its except branch: the exception leaves the call
RefreshExceptPropagates(c, n) ==
    [Finish(c, FALSE, 0) EXCEPT !.tr.res.raised = TRUE]

\* refresh_token, lines 379-391: the except branch
RefreshExcept(c, n) ==
    LET c1 == [c EXCEPT !.s.consecutive_failures = @ + 1, !.s.last_error_time = n]
    IN  IF c1.s.consecutive_failures >= max_failures_before_alert
        THEN CallNotify(c1, "rf_exc_notified", n)
        ELSE Ret(c1, FALSE)

\* refresh_token with its requests inside the with block of line 267: the lock is
\* held while the request and the retry pause wait
RefreshBeginKeepsLock(c, t, n) ==
    LET sa == ShouldAttemptRecovery(c.s, n)
        c1 == [c EXCEPT !.s = sa.s]
        td == c1.s.token_data
    IN  IF ~sa.ok THEN Ret(c1, FALSE)
        ELSE IF c1.s.token_lock # NoTask THEN Hang(c1)
        ELSE IF Falsy(td) \/ ~Has(td, "refresh_token")
             THEN IF c1.s.consecutive_failures = 0
                  THEN CallTryCc([Hold(c1, t) EXCEPT !.s.consecutive_failures = 1,
                                                     !.s.last_error_time = n],
                                 "rf_cc_norefresh")
                  ELSE Ret(c1, FALSE)
        ELSE LET c2 == [c1 EXCEPT !.tr.rt = td.refresh_token, !.tr.attempt = 0]
             IN  IF /\ Has(td, "created_at") /\ Has(td, "expires_in")
                    /\ n > td.created_at + td.expires_in + LongExpired
                 THEN CallTryCc(Hold(c2, t), "rf_cc_old")
                 ELSE PostRefresh(Hold(c2, t))

\* refresh_token, lines 238-281: from the call to the first request
RefreshBegin(c, t, n) ==
    LET sa == ShouldAttemptRecovery(c.s, n)
        c1 == [c EXCEPT !.s = sa.s]
        td == c1.s.token_data
    IN  IF ~sa.ok THEN Ret(c1, FALSE)
        ELSE IF c1.s.token_lock # NoTask THEN Hang(c1)
        ELSE IF Falsy(td) \/ ~Has(td, "refresh_token")
             THEN IF c1.s.consecutive_failures = 0
                  THEN CallTryCc([Hold(c1, t) EXCEPT !.s.consecutive_failures = 1,
                                                     !.s.last_error_time = n],
                                 "rf_cc_norefresh")
                  ELSE Ret(c1, FALSE)
        ELSE LET c2 == [c1 EXCEPT !.tr.rt = td.refresh_token, !.tr.attempt = 0]
             IN  IF /\ Has(td, "created_at") /\ Has(td, "expires_in")
                    /\ n > td.created_at + td.expires_in + LongExpired
                 THEN CallTryCc(Hold(c2, t), "rf_cc_old")
                 ELSE PostRefresh(c2)

\* get_valid_token, lines 698-705
GvtReturnCurrent(c) ==
    IF c.s.token_lock # NoTask THEN Hang(c)
    ELSE Finish(c, AccessTokenOf(c.s.token_data) # 0, AccessTokenOf(c.s.token_data))

\* get_valid_token, lines 647-680: from the call to the first request or the return
GvtBegin(c, t, n) ==
    LET c1 == IF c.s.token_file # NoFile /\ c.s.file_modified
              THEN [c EXCEPT !.s = LoadToken(c.s, n)]
              ELSE c
        sa == ShouldAttemptRecovery(c1.s, n)
        c2 == IF c1.s.error_state THEN [c1 EXCEPT !.s = sa.s] ELSE c1
        td == c2.s.token_data
    IN  IF c1.s.hung THEN Hang(c1)
        ELSE IF c1.s.error_state /\ ~sa.ok THEN Finish(c2, FALSE, 0)
        ELSE IF c2.s.token_lock # NoTask THEN Hang(c2)
        ELSE IF Falsy(td) \/ ~Has(td, "access_token")
             THEN CallTryCc(Hold(c2, t), "gvt_cc_none")
        ELSE IF IsTokenExpiredOrExpiringSoon(td, DefaultThreshold, n)
             THEN RefreshBegin(Push(c2, "gvt_refreshed"), t, n)
        ELSE GvtReturnCurrent(c2)

\* get_valid_token, lines 681-696: after refresh_token returned
GvtRefreshed(c, t, n) ==
    LET td == c.s.token_data
    IN  IF c.tr.ret THEN GvtReturnCurrent(c)
        ELSE IF c.s.token_lock # NoTask THEN Hang(c)
        ELSE IF ~Falsy(td) /\ Has(td, "access_token")
             THEN IF ~IsTokenExpiredOrExpiringSoon(td, 0, n)
                  THEN Finish(c, TRUE, td.access_token)
                  ELSE CallTryCc(Hold(c, t), "gvt_cc_expired")
        ELSE GvtReturnCurrent(c)

\* get_valid_token, lines 668-672 and 693-696: after _try_client_credentials, lock held
GvtAfterCc(c) ==
    IF c.tr.ret
    THEN Finish(Release(c), AccessTokenOf(c.s.token_data) # 0, AccessTokenOf(c.s.token_data))
    ELSE Finish(Release(c), FALSE, 0)

\* _renew_if_needed with the 600 s margin of get_valid_token at line 723
RenewIfNeededShortMargin(c, t, n) ==
    LET sa == ShouldAttemptRecovery(c.s, n)
        c1 == IF c.s.error_state
              THEN [c EXCEPT !.s = [sa.s EXCEPT !.error_state = ~sa.ok]]
              ELSE c
    IN  IF c1.s.token_lock # NoTask THEN Hang(c1)
        ELSE IF IsTokenExpiredOrExpiringSoon(c1.s.token_data, DefaultThreshold, n)
             THEN RefreshBegin(Push(c1, "rin_refreshed"), t, n)
        ELSE Ret(c1, FALSE)

\* _renew_if_needed
RenewIfNeeded(c, t, n) ==
    LET sa == ShouldAttemptRecovery(c.s, n)
        c1 == IF c.s.error_state
              THEN [c EXCEPT !.s = [sa.s EXCEPT !.error_state = ~sa.ok]]
              ELSE c
    IN  IF c1.s.token_lock # NoTask THEN Hang(c1)
        ELSE IF IsTokenExpiredOrExpiringSoon(c1.s.token_data, BackgroundThreshold, n)
             THEN RefreshBegin(Push(c1, "rin_refreshed"), t, n)
        ELSE Ret(c1, FALSE)

\* the code that follows a return, up to the next wait
Cont(c, t, n) ==
    CASE c.tr.pc = "gvt_cc_none" -> GvtAfterCc(c)
      [] c.tr.pc = "gvt_cc_expired" -> GvtAfterCc(c)
      [] c.tr.pc = "gvt_refreshed" -> GvtRefreshed(c, t, n)
      [] c.tr.pc = "rf_cc_norefresh" ->
            IF c.tr.ret THEN Ret(Release(c), TRUE)
            ELSE AttemptTokenRecovery(c, "rf_rec_norefresh")
      [] c.tr.pc = "rf_rec_norefresh" -> Ret(Release(c), FALSE)
      [] c.tr.pc = "rf_cc_old" ->
            IF c.tr.ret THEN Ret(Release(c), TRUE) ELSE PostRefresh(Release(c))
      [] c.tr.pc = "rf_ig_notified" -> CallTryCc(c, "rf_ig_cc")
      [] c.tr.pc = "rf_ig_cc" ->
            IF c.tr.ret THEN Ret(c, TRUE) ELSE AttemptTokenRecovery(c, "rf_ig_rec")
      [] c.tr.pc = "rf_ig_rec" -> Ret(c, FALSE)
      [] c.tr.pc = "rf_exc_notified" -> Ret(c, FALSE)
      [] c.tr.pc = "rec_cc" ->
            IF c.tr.ret THEN Ret(c, TRUE)
            ELSE IF cfg.webhook
                 THEN [c EXCEPT !.tr.pc = "rec_webhook", !.tr.reqs = Append(@, "wh")]
                 ELSE DeleteStep(c, n)
      [] c.tr.pc = "rec_delete" -> DeleteStep(c, n)
      [] c.tr.pc = "rec_notified" -> Ret(c, FALSE)
      [] c.tr.pc = "rin_refreshed" -> Ret(c, FALSE)
      [] c.tr.pc = "ret_refresh" -> Finish(c, c.tr.ret, 0)
      [] c.tr.pc = "job_loop" ->
            IF c.s.job_chunks = 0
            THEN [c EXCEPT !.tr.pc = "job_spin", !.tr.stack = << >>, !.tr.reqs = << >>,
                           !.tr.rt = 0, !.tr.attempt = 0, !.tr.ret = FALSE]
            ELSE [c EXCEPT !.tr.pc = "job_sleep", !.tr.stack = <<"job_loop">>,
                           !.tr.wake_at = n + check_interval, !.tr.reqs = << >>,
                           !.tr.rt = 0, !.tr.attempt = 0, !.tr.ret = FALSE]

RECURSIVE Settle(_, _, _)
Settle(c, t, n) == IF c.tr.pc \in WaitPcs THEN c ELSE Settle(Cont(c, t, n), t, n)

----------------------------------------------------------------------------
(* Initial state: the state after BlingTokenManager.__init__               *)

\* token files the manager may find at start: valid, expired 400 s ago, expired for
\* more than 12 hours, stamped in the future, left by a credential grant, no stamp
FreshFile == [access_token |-> 1, refresh_token |-> 1, expires_in |-> 21600, created_at |-> StartTime - 900]
ExpiredFile == [access_token |-> 1, refresh_token |-> 1, expires_in |-> 3600, created_at |-> StartTime - 4000]
LongExpiredFile == [access_token |-> 1, refresh_token |-> 1, expires_in |-> 3600, created_at |-> StartTime - 50000]
FutureShortFile == [access_token |-> 1, refresh_token |-> 1, expires_in |-> 3600, created_at |-> StartTime + 4500]
FutureLongFile == [access_token |-> 1, refresh_token |-> 1, expires_in |-> 21600, created_at |-> StartTime + 4500]
NoRefreshFile == [access_token |-> 1, expires_in |-> 3600, created_at |-> StartTime - 4000]
NoStampFile == [access_token |-> 1, refresh_token |-> 1, expires_in |-> 3600]

InitFiles ==
    { NoFile, BadFile, FreshFile, ExpiredFile, LongExpiredFile, FutureShortFile,
      FutureLongFile, NoRefreshFile, NoStampFile }

\* the object before _load_token is called
BlankManager(f) ==
    [ token_data |-> NoneData, token_lock |-> NoTask, hung |-> FALSE,
      error_state |-> FALSE, consecutive_failures |-> 0,
      last_error_time |-> NoTime, last_notification_time |-> NoTime,
      renewal_running |-> FALSE, job_tasks |-> 0, job_chunks |-> 0,
      token_file |-> f, file_modified |-> TRUE, backup_file |-> NoFile, env_api_key |-> 0,
      unlocked_access |-> FALSE ]

\* _load_token replaces a created_at that lies more than an hour ahead
LoadClamps(s, t) ==
    /\ s.token_file \notin {NoFile, BadFile}
    /\ Has(s.token_file, "created_at")
    /\ s.token_file.created_at > t + FutureThreshold

NoProbe == [called |-> FALSE]

NoHist ==
    [ only_ig |-> TRUE, notif_sent |-> 0, skew_loaded |-> FALSE, burst |-> FALSE,
      event |-> "none", was_error |-> FALSE, was_failures |-> 0, job_call |-> "none",
      failure |-> "none", unlocked_access |-> FALSE ]

InitWith(files, cfgs) ==
    /\ now = StartTime
    /\ \E f \in files :
          \* __init__ runs before any task exists: its load is not counted
          /\ mgr = [LoadToken(BlankManager(f), StartTime) EXCEPT !.unlocked_access = FALSE]
          /\ hist = [NoHist EXCEPT !.skew_loaded = LoadClamps(BlankManager(f), StartTime)]
    /\ task = [t \in Tasks |-> IF t = Job THEN NewTask("no_job") ELSE NewTask("idle")]
    /\ issued = 1
    /\ ext = NoFile
    /\ cfg \in cfgs
    /\ probe = NoProbe

Init == InitWith(InitFiles, [whatsapp : BOOLEAN, webhook : BOOLEAN])

----------------------------------------------------------------------------
(* Actions *)

\* the event loop is free to run a task
LoopIdle == ~mgr.hung /\ \A u \in Tasks : task[u].pc \notin BlockingPcs

\* what a finished call returned is kept for one step
Forget(tk) == [u \in Tasks |-> IF tk[u].pc = "idle" THEN NewTask("idle") ELSE tk[u]]

\* what the properties remember of a step into manager s: event is the renewal that
\* succeeded in it ("none" if none), ig an invalid_grant classification, sent the
\* outcome of a notification ("none", "ok", "failed"), clamped a reload that
\* replaced a future created_at; job_call is the call of start_renewal_job or
\* stop_renewal_job made in the step, failure the way a request failed in it
\* ("status": an error status, "connection": Timeout or ConnectionError),
\* unlocked_access whether the step read or wrote _token_data without _token_lock
HistAfter(s, event, ig, sent, clamped) ==
    LET pure == /\ hist.only_ig
                /\ sent # "failed"
                /\ (s.token_data = mgr.token_data \/ clamped)
                /\ (ig \/ s.consecutive_failures = mgr.consecutive_failures)
    IN  [ only_ig |-> pure,
          notif_sent |-> IF ~pure THEN 0 ELSE IF sent = "ok" THEN hist.notif_sent + 1 ELSE hist.notif_sent,
          skew_loaded |-> IF clamped THEN TRUE
                          ELSE IF s.token_data # mgr.token_data THEN FALSE
                          ELSE hist.skew_loaded,
          burst |-> \/ hist.burst
                    \/ /\ sent = "ok"
                       /\ mgr.last_notification_time # NoTime
                       /\ now - mgr.last_notification_time < min_notification_interval * 60,
          event |-> IF s.hung THEN "none" ELSE event,
          was_error |-> event # "none" /\ ~s.hung /\ mgr.error_state,
          was_failures |-> IF event # "none" /\ ~s.hung THEN mgr.consecutive_failures ELSE 0,
          job_call |-> "none", failure |-> "none",
          unlocked_access |-> s.unlocked_access ]

\* a step of the environment alone
Quiet == [hist EXCEPT !.event = "none", !.was_error = FALSE, !.was_failures = 0,
                      !.job_call = "none", !.failure = "none",
                      !.unlocked_access = FALSE]

\* run task t from context c0 to its next wait, after its request failed
RunFailed(t, c0, ig, failure) ==
    LET c == Settle(c0, t, now)
    IN  /\ mgr' = [c.s EXCEPT !.unlocked_access = FALSE]
        /\ task' = [Forget(task) EXCEPT ![t] = c.tr]
        /\ hist' = [HistAfter(c.s, "none", ig, "none", FALSE) EXCEPT !.failure = failure]

\* run task t from context c0 to its next wait
Run(t, c0, event, ig, sent, clamped) ==
    LET c == Settle(c0, t, now)
    IN  /\ mgr' = [c.s EXCEPT !.unlocked_access = FALSE]
        /\ task' = [Forget(task) EXCEPT ![t] = c.tr]
        /\ hist' = HistAfter(c.s, event, ig, sent, clamped)

Ctx(t) == [s |-> mgr, tr |-> task[t]]

\* a caller starts a call
StartCall(t, op) ==
    [s |-> mgr,
     tr |-> [NewTask("idle") EXCEPT !.op = op,
                                    !.start_failures = mgr.consecutive_failures,
                                    !.start_tok = IF mgr.token_file \in {NoFile, BadFile} THEN 0
                                                  ELSE AccessTokenOf(mgr.token_file)]]

Tick(max_ticks) ==
    /\ LoopIdle
    /\ now < StartTime + max_ticks * TickSeconds
    /\ now' = now + TickSeconds
    /\ task' = Forget(task)
    /\ hist' = Quiet
    /\ UNCHANGED <<mgr, issued, ext, cfg, probe>>

\* the clock passes the end of the backoff window that is running, a window of
\* min_failures failures or more
BackoffElapses(min_failures) ==
    /\ LoopIdle
    /\ mgr.error_state /\ mgr.last_error_time # NoTime
    /\ mgr.consecutive_failures >= min_failures
    /\ now <= mgr.last_error_time + CurrentBackoffSeconds(mgr.consecutive_failures)
    /\ now' = mgr.last_error_time + CurrentBackoffSeconds(mgr.consecutive_failures)
                + TickSeconds
    /\ task' = Forget(task)
    /\ hist' = Quiet
    /\ UNCHANGED <<mgr, issued, ext, cfg, probe>>

CallGetValidToken(t) ==
    /\ LoopIdle /\ task[t].pc = "idle"
    /\ Run(t, GvtBegin(StartCall(t, "get_valid_token"), t, now), "none", FALSE, "none",
           mgr.file_modified /\ LoadClamps(mgr, now))
    /\ UNCHANGED <<now, issued, ext, cfg, probe>>

CallRefreshToken(t) ==
    /\ LoopIdle /\ task[t].pc = "idle"
    /\ Run(t, RefreshBegin(Push(StartCall(t, "refresh_token"), "ret_refresh"), t, now),
           "none", FALSE, "none", FALSE)
    /\ UNCHANGED <<now, issued, ext, cfg, probe>>

\* create_token_from_auth_code up to its requests.post
CallCreateTokenFromAuthCode(t) ==
    /\ LoopIdle /\ task[t].pc = "idle"
    /\ Run(t, [StartCall(t, "create_token_from_auth_code")
                 EXCEPT !.tr.pc = "ac_post", !.tr.reqs = <<"ac">>],
           "none", FALSE, "none", FALSE)
    /\ UNCHANGED <<now, issued, ext, cfg, probe>>

\* the body of a 200 response stored without the call of _save_token
StoreWithoutSave(c, new_token_data) ==
    IF c.s.token_lock # NoTask THEN Hang(c)
    ELSE [c EXCEPT !.s.token_data = new_token_data]

\* the manager stores and saves the body of a 200 response
Store(c, new_token_data) ==
    IF c.s.token_lock # NoTask THEN Hang(c)
    ELSE [c EXCEPT !.s = SaveToken([c.s EXCEPT !.token_data = new_token_data])]

\* _try_client_credentials, lines 609-622: status 200
ClientCredentialsOk(t, max_tokens) ==
    /\ ~mgr.hung /\ task[t].pc = "cc_post"
    /\ issued < max_tokens
    /\ \E lifetime \in Lifetimes :
          LET c == Store(Ctx(t), TokenResponse(issued + 1, lifetime, FALSE, now))
          IN  Run(t, IF c.s.hung THEN c ELSE Ret(c, TRUE), "credential_grant", FALSE, "none", FALSE)
    /\ issued' = issued + 1
    /\ UNCHANGED <<now, ext, cfg, probe>>

\* _try_client_credentials, lines 623-639: an error status, or requests.post raised
ClientCredentialsFailed(t) ==
    /\ ~mgr.hung /\ task[t].pc = "cc_post"
    /\ \E failure \in {"status", "connection"} : RunFailed(t, Ret(Ctx(t), FALSE), FALSE, failure)
    /\ UNCHANGED <<now, issued, ext, cfg, probe>>

\* refresh_token, lines 318-331: status 200
RefreshGrantOk(t, max_tokens) ==
    /\ ~mgr.hung /\ task[t].pc = "rf_post"
    /\ issued < max_tokens
    /\ \E lifetime \in Lifetimes :
          LET c == Store(Ctx(t), TokenResponse(issued + 1, lifetime, TRUE, now))
          IN  Run(t, IF c.s.hung THEN c ELSE Ret(c, TRUE), "refresh_grant", FALSE, "none", FALSE)
    /\ issued' = issued + 1
    /\ UNCHANGED <<now, ext, cfg, probe>>

\* refresh_token on an error status without lines 334-335: the failure is not counted
\* and its time is not kept
RefreshGrantRejectedUncounted(t, max_failures) ==
    /\ ~mgr.hung /\ task[t].pc = "rf_post"
    /\ mgr.consecutive_failures < max_failures
    /\ \E is_invalid_grant \in BOOLEAN :
          LET c == Ctx(t)
          IN  RunFailed(t, IF is_invalid_grant
                           THEN LET c1 == [c EXCEPT !.s.error_state = TRUE]
                                IN  IF c1.s.consecutive_failures >= max_failures_before_alert
                                    THEN CallNotify(c1, "rf_ig_notified", now)
                                    ELSE CallTryCc(c1, "rf_ig_cc")
                           ELSE Ret(c, FALSE),
                        is_invalid_grant, "status")
    /\ UNCHANGED <<now, issued, ext, cfg, probe>>

\* refresh_token, lines 332-377: an error status; invalid_grant or another error body
RefreshGrantRejected(t, max_failures) ==
    /\ ~mgr.hung /\ task[t].pc = "rf_post"
    /\ mgr.consecutive_failures < max_failures
    /\ \E is_invalid_grant \in BOOLEAN :
          LET c == [Ctx(t) EXCEPT !.s.consecutive_failures = @ + 1, !.s.last_error_time = now]
          IN  RunFailed(t, IF is_invalid_grant
                           THEN LET c1 == [c EXCEPT !.s.error_state = TRUE]
                                IN  IF c1.s.consecutive_failures >= max_failures_before_alert
                                    THEN CallNotify(c1, "rf_ig_notified", now)
                                    ELSE CallTryCc(c1, "rf_ig_cc")
                           ELSE Ret(c, FALSE),
                        is_invalid_grant, "status")
    /\ UNCHANGED <<now, issued, ext, cfg, probe>>

\* refresh_token, lines 310-316: Timeout or ConnectionError
RefreshGrantConnectionError(t, max_failures) ==
    /\ ~mgr.hung /\ task[t].pc = "rf_post"
    /\ mgr.consecutive_failures < max_failures
    /\ LET c == Ctx(t)
       IN  RunFailed(t, IF c.tr.attempt < RetryAttempts - 1
                        THEN [c EXCEPT !.tr.pc = "rf_sleep", !.tr.attempt = @ + 1]
                        ELSE RefreshExcept(c, now),
                     FALSE, "connection")
    /\ UNCHANGED <<now, issued, ext, cfg, probe>>

\* refresh_token, line 319: status 200 with a body that is not JSON, response.json() raises
RefreshGrantMalformed(t, max_failures) ==
    /\ ~mgr.hung /\ task[t].pc = "rf_post"
    /\ mgr.consecutive_failures < max_failures
    /\ Run(t, RefreshExcept(Ctx(t), now), "none", FALSE, "none", FALSE)
    /\ UNCHANGED <<now, issued, ext, cfg, probe>>

\* refresh_token, line 313: the retry pause is over, the request is sent again
RetryWake(t) ==
    /\ LoopIdle /\ task[t].pc = "rf_sleep"
    /\ Run(t, PostRefresh(Ctx(t)), "none", FALSE, "none", FALSE)
    /\ UNCHANGED <<now, issued, ext, cfg, probe>>

\* create_token_from_auth_code, lines 832-871
AuthCodeOk(t, max_tokens) ==
    /\ ~mgr.hung /\ task[t].pc = "ac_post"
    /\ issued < max_tokens
    /\ \E lifetime \in Lifetimes :
          LET c == Store(Ctx(t), TokenResponse(issued + 1, lifetime, TRUE, now))
              c1 == [c EXCEPT !.s.error_state = FALSE,
                              !.s.consecutive_failures = 0,
                              !.s.last_error_time = NoTime]
          IN  Run(t, IF c.s.hung THEN c
                     ELSE IF cfg.whatsapp THEN [c1 EXCEPT !.tr.pc = "ac_send"]
                     ELSE Finish(c1, TRUE, 0),
                  "auth_code", FALSE, "none", FALSE)
    /\ issued' = issued + 1
    /\ UNCHANGED <<now, ext, cfg, probe>>

\* create_token_from_auth_code, lines 872-878
AuthCodeFailed(t) ==
    /\ ~mgr.hung /\ task[t].pc = "ac_post"
    /\ Run(t, Finish(Ctx(t), FALSE, 0), "none", FALSE, "none", FALSE)
    /\ UNCHANGED <<now, issued, ext, cfg, probe>>

\* create_token_from_auth_code, lines 863-871: send_message returned
SuccessMessageDone(t) ==
    /\ LoopIdle /\ task[t].pc = "ac_send"
    /\ Run(t, Finish(Ctx(t), TRUE, 0), "none", FALSE, "none", FALSE)
    /\ UNCHANGED <<now, issued, ext, cfg, probe>>

\* _attempt_token_recovery, lines 425-438: the webhook answered, or the call raised
WebhookResponse(t) ==
    /\ ~mgr.hung /\ task[t].pc = "rec_webhook"
    /\ \E accepted \in BOOLEAN :
          Run(t, IF accepted THEN Ret(Ctx(t), FALSE)
                 ELSE [Ctx(t) EXCEPT !.tr.pc = "rec_delete"],
              "none", FALSE, "none", FALSE)
    /\ UNCHANGED <<now, issued, ext, cfg, probe>>

\* _notify_token_failure, lines 506-519: send_message returned
NotificationDone(t) ==
    /\ LoopIdle /\ task[t].pc = "notify_send"
    /\ \E success \in BOOLEAN :
          LET c == Ctx(t)
          IN  Run(t, Ret(IF success THEN [c EXCEPT !.s.last_notification_time = now] ELSE c, FALSE),
                  "none", FALSE, IF success THEN "ok" ELSE "failed", FALSE)
    /\ UNCHANGED <<now, issued, ext, cfg, probe>>

\* interval_hours in minutes: 0.1 hours, and the 0.5 and 1 hours of the two calls of
\* main.py; and the number of sleeps of one round of the loop (line 755)
JobIntervals == {6, 30, 60}
Chunks(interval_minutes) == (interval_minutes * 60) \div check_interval

\* the loop tasks of the event loop: job_tasks counts the tasks that were created and
\* not cancelled, job_chunks is the interval of the newest one

\* start_renewal_job without lines 731-737: it neither returns when a loop is running
\* nor cancels the previous task
StartRenewalJobAlways(interval_minutes) ==
    /\ LoopIdle
    /\ mgr' = [mgr EXCEPT !.renewal_running = TRUE,
                          !.job_tasks = @ + 1,
                          !.job_chunks = Chunks(interval_minutes)]
    /\ task' = [Forget(task) EXCEPT ![Job] = NewTask("job_new")]
    /\ hist' = [Quiet EXCEPT !.job_call = "started"]
    /\ UNCHANGED <<now, issued, ext, cfg, probe>>

\* start_renewal_job, lines 729-779
StartRenewalJob(interval_minutes) ==
    /\ LoopIdle
    /\ IF mgr.renewal_running
       THEN /\ mgr' = mgr
            /\ task' = Forget(task)
            /\ hist' = [Quiet EXCEPT !.job_call = "start_skipped"]
       ELSE /\ mgr' = [mgr EXCEPT !.renewal_running = TRUE,
                                  !.job_tasks = (IF task[Job].pc # "no_job" THEN @ - 1 ELSE @) + 1,
                                  !.job_chunks = Chunks(interval_minutes)]
            /\ task' = [Forget(task) EXCEPT ![Job] = NewTask("job_new")]
            /\ hist' = [Quiet EXCEPT !.job_call = "started"]
    /\ UNCHANGED <<now, issued, ext, cfg, probe>>

\* stop_renewal_job, lines 781-790: the task is cancelled where it is suspended
StopRenewalJob ==
    /\ LoopIdle
    /\ IF ~mgr.renewal_running
       THEN /\ mgr' = mgr
            /\ task' = Forget(task)
            /\ hist' = [Quiet EXCEPT !.job_call = "stop_skipped"]
       ELSE /\ mgr' = [mgr EXCEPT !.renewal_running = FALSE,
                                  !.job_tasks = IF task[Job].pc # "no_job" THEN @ - 1 ELSE @,
                                  !.job_chunks = 0]
            /\ task' = [Forget(task) EXCEPT ![Job] = NewTask("no_job")]
            /\ hist' = [Quiet EXCEPT !.job_call = "stopped"]
    /\ UNCHANGED <<now, issued, ext, cfg, probe>>

\* renewal_job, line 746: the check at start
JobRun ==
    /\ LoopIdle /\ task[Job].pc = "job_new"
    /\ Run(Job, RenewIfNeeded([s |-> mgr,
                               tr |-> [NewTask("job_new") EXCEPT !.op = "renewal_job",
                                                                 !.stack = <<"job_loop">>]],
                              Job, now),
           "none", FALSE, "none", FALSE)
    /\ UNCHANGED <<now, issued, ext, cfg, probe>>

\* renewal_job, lines 760-762: the sleep is over
JobWake ==
    /\ LoopIdle /\ task[Job].pc = "job_sleep"
    /\ now >= task[Job].wake_at
    /\ Run(Job, RenewIfNeeded(Ctx(Job), Job, now), "none", FALSE, "none", FALSE)
    /\ UNCHANGED <<now, issued, ext, cfg, probe>>

\* renew_token.py, in another process: the server answers its refresh_token()
ExtObtain(max_tokens) ==
    /\ ext = NoFile
    /\ issued < max_tokens
    /\ \E lifetime \in Lifetimes : ext' = TokenResponse(issued + 1, lifetime, TRUE, now)
    /\ issued' = issued + 1
    /\ task' = Forget(task)
    /\ hist' = Quiet
    /\ UNCHANGED <<now, mgr, cfg, probe>>

\* renew_token.py: its _save_token writes the file
ExtWrite ==
    /\ ext # NoFile
    /\ mgr' = [mgr EXCEPT !.token_file = ext, !.file_modified = TRUE]
    /\ ext' = NoFile
    /\ task' = Forget(task)
    /\ hist' = Quiet
    /\ UNCHANGED <<now, issued, cfg, probe>>

\* callers ts call the manager
Calls(ts) ==
    \/ \E t \in ts : CallGetValidToken(t)
    \/ \E t \in ts : CallRefreshToken(t)

\* the authorization server accepts a renewal; it issues tokens up to max_tokens
Accepts(ts, max_tokens) ==
    \/ \E t \in ts : ClientCredentialsOk(t, max_tokens)
    \/ \E t \in ts : RefreshGrantOk(t, max_tokens)

\* the authorization server is unreachable; it fails up to max_failures renewals in a row
Unreachable(ts, max_failures) ==
    \/ \E t \in ts : ClientCredentialsFailed(t)
    \/ \E t \in ts : RefreshGrantConnectionError(t, max_failures)
    \/ \E t \in ts : RetryWake(t)

\* the steps of the manager's tasks ts
ManagerStep(ts, max_tokens, max_failures) ==
    \/ Calls(ts)
    \/ Accepts(ts, max_tokens)
    \/ Unreachable(ts, max_failures)
    \/ \E t \in ts : RefreshGrantRejected(t, max_failures)
    \/ \E t \in ts : RefreshGrantMalformed(t, max_failures)
    \/ \E t \in ts : WebhookResponse(t)
    \/ \E t \in ts : NotificationDone(t)

AuthCodeStep(ts, max_tokens) ==
    \/ \E t \in ts : CallCreateTokenFromAuthCode(t)
    \/ \E t \in ts : AuthCodeOk(t, max_tokens)
    \/ \E t \in ts : AuthCodeFailed(t)
    \/ \E t \in ts : SuccessMessageDone(t)

JobStep ==
    \/ \E interval_minutes \in JobIntervals : StartRenewalJob(interval_minutes)
    \/ StopRenewalJob
    \/ JobRun
    \/ JobWake

ExtStep(max_tokens) == ExtObtain(max_tokens) \/ ExtWrite

\* obter_token_bling.py, in another process: the server answers its authorization code
\* and save_token writes the JSON body as it came, without created_at
ObterTokenBling(max_tokens) ==
    /\ issued < max_tokens
    /\ \E lifetime \in Lifetimes :
          mgr' = [mgr EXCEPT !.token_file = [access_token |-> issued + 1,
                                             refresh_token |-> issued + 1,
                                             expires_in |-> lifetime],
                             !.file_modified = TRUE]
    /\ issued' = issued + 1
    /\ task' = Forget(task)
    /\ hist' = Quiet
    /\ UNCHANGED <<now, ext, cfg, probe>>

----------------------------------------------------------------------------
(* One caller at a time: every call ends before the next one starts.       *)

Next ==
    \/ Tick(MaxTicks)
    \/ ManagerStep({"c1"}, MaxTokens, MaxFailures)
    \/ AuthCodeStep({"c1"}, MaxTokens)

Spec == Init /\ [][Next]_vars

----------------------------------------------------------------------------
(* Two callers at once: a call may start while another one is suspended in *)
(* the retry pause of refresh_token or in the send of a notification.  The *)
(* manager starts with an expired record and a messaging client; the       *)
(* server rejects every renewal or is unreachable.                         *)

\* the server fails renewals up to one past the alert threshold
RaceFailures == max_failures_before_alert + 1

RaceInit == InitWith({ExpiredFile}, {[whatsapp |-> TRUE, webhook |-> FALSE]})

RaceNext ==
    \/ Tick(MaxTicks)
    \/ Calls(Callers)
    \/ Unreachable(Callers, RaceFailures)
    \/ \E t \in Callers : RefreshGrantRejected(t, RaceFailures)
    \/ \E t \in Callers : NotificationDone(t)

SpecRace == RaceInit /\ [][RaceNext]_vars

----------------------------------------------------------------------------
(* Two callers of get_valid_token and the renewal tool renew_token.py,     *)
(* which runs in a process of its own, renews the token against the same   *)
(* server and writes the same token file.  The server accepts a renewal or *)
(* is unreachable.                                                         *)

\* clock steps, number of the last token issued, consecutive failed renewals
ExtTicks == 4
ExtTokens == 3
ExtFailures == 2

ExtInit == InitWith({ExpiredFile}, {[whatsapp |-> FALSE, webhook |-> FALSE]})

ExtNext ==
    \/ Tick(ExtTicks)
    \/ \E t \in Callers : CallGetValidToken(t)
    \/ Accepts(Callers, ExtTokens)
    \/ Unreachable(Callers, ExtFailures)
    \/ ExtStep(ExtTokens)

SpecExt == ExtInit /\ [][ExtNext]_vars

----------------------------------------------------------------------------
(* The token validator alone: _is_token_expired_or_expiring_soon called on *)
(* records around the limits of its thresholds, at several clock values.   *)

\* seconds since created_at of the records examined; they expire after 3600 s
ProbeAges == {1799, 1800, 1801, 2999, 3000, 3001, 3599, 3600, 3601, 4500}

ProbeRecords ==
    {NoneData, EmptyDict}
        \cup {[access_token |-> 1, expires_in |-> 3600, created_at |-> StartTime - a] :
                 a \in ProbeAges}
        \cup {[access_token |-> 1, expires_in |-> 3600],
              [access_token |-> 1, created_at |-> StartTime],
              [access_token |-> 1]}

ProbeThresholds == {0, DefaultThreshold, BackgroundThreshold}

ValidatorInit ==
    /\ now = StartTime
    /\ \E d \in ProbeRecords : mgr = [BlankManager(NoFile) EXCEPT !.token_data = d]
    /\ task = [t \in Tasks |-> IF t = Job THEN NewTask("no_job") ELSE NewTask("idle")]
    /\ issued = 1
    /\ ext = NoFile
    /\ cfg = [whatsapp |-> FALSE, webhook |-> FALSE]
    /\ probe = NoProbe
    /\ hist = NoHist

\* a call of _is_token_expired_or_expiring_soon(threshold_seconds)
CheckExpiry(threshold_seconds) ==
    /\ probe' = [called |-> TRUE, threshold_seconds |-> threshold_seconds, at |-> now,
                 answer |-> IsTokenExpiredOrExpiringSoon(mgr.token_data, threshold_seconds, now)]
    /\ UNCHANGED <<now, mgr, task, issued, ext, cfg, hist>>

ValidatorNext ==
    \/ Tick(MaxTicks)
    \/ \E threshold_seconds \in ProbeThresholds : CheckExpiry(threshold_seconds)

SpecValidator == ValidatorInit /\ [][ValidatorNext]_vars

----------------------------------------------------------------------------
(* The background loop and one caller of get_valid_token:                  *)
(* start_renewal_job and stop_renewal_job are called at any time the event *)
(* loop is free, the loop renews through _renew_if_needed, the server      *)
(* accepts, rejects or is unreachable.                                     *)

JobTicks == 3
JobTokens == 2
JobFailures == 3
JobTasks == {"c1", Job}

JobInit ==
    InitWith({FreshFile, ExpiredFile, NoRefreshFile, NoFile},
             {[whatsapp |-> TRUE, webhook |-> FALSE]})

JobNext ==
    \/ Tick(JobTicks)
    \/ JobStep
    \/ CallGetValidToken("c1")
    \/ Accepts(JobTasks, JobTokens)
    \/ Unreachable(JobTasks, JobFailures)
    \/ \E t \in JobTasks : RefreshGrantRejected(t, JobFailures)
    \/ \E t \in JobTasks : NotificationDone(t)

SpecJob == JobInit /\ [][JobNext]_vars

----------------------------------------------------------------------------
(* The backoff controller alone: _should_attempt_recovery called in the    *)
(* error state after 1 to ProbeFailures failures, at clock values around   *)
(* the ends of the windows.                                                *)

ProbeFailures == 6

\* seconds since last_error_time at the start
ProbeElapsed == {899, 900, 901, 1799, 1800, 1801, 3599, 3600, 3601, 7199, 7200, 7201, 14400}

BackoffInit ==
    /\ now = StartTime
    /\ \E f \in 1..ProbeFailures, e \in ProbeElapsed :
          mgr = [BlankManager(NoFile) EXCEPT !.error_state = TRUE,
                                             !.consecutive_failures = f,
                                             !.last_error_time = StartTime - e]
    /\ task = [t \in Tasks |-> IF t = Job THEN NewTask("no_job") ELSE NewTask("idle")]
    /\ issued = 1
    /\ ext = NoFile
    /\ cfg = [whatsapp |-> FALSE, webhook |-> FALSE]
    /\ probe = NoProbe
    /\ hist = NoHist

\* a call of _should_attempt_recovery()
CheckRecovery ==
    /\ probe' = [called |-> TRUE, at |-> now, answer |-> ShouldAttemptRecovery(mgr, now).ok]
    /\ mgr' = ShouldAttemptRecovery(mgr, now).s
    /\ UNCHANGED <<now, task, issued, ext, cfg, hist>>

BackoffNext ==
    \/ Tick(MaxTicks)
    \/ CheckRecovery

SpecBackoff == BackoffInit /\ [][BackoffNext]_vars

----------------------------------------------------------------------------
(* Exhausted recovery: one caller, a server that fails renewal after        *)
(* renewal until consecutive_failures passes the threshold of line 442,     *)
(* and the authorization-code exchange that follows a deleted token file.   *)

RecoveryTicks == 1
RecoveryTokens == 2
RecoveryFailures == 12
\* the clock is taken past the backoff windows of RecoveryWaits failures or more
RecoveryWaits == 11

RecoveryInit == InitWith({ExpiredFile}, [whatsapp : BOOLEAN, webhook : BOOLEAN])

RecoveryNext ==
    \/ Tick(RecoveryTicks)
    \/ BackoffElapses(RecoveryWaits)
    \/ ManagerStep({"c1"}, RecoveryTokens, RecoveryFailures)
    \/ AuthCodeStep({"c1"}, RecoveryTokens)

SpecRecovery == RecoveryInit /\ [][RecoveryNext]_vars

----------------------------------------------------------------------------
(* Hand-off: one caller whose renewals the server rejects or cannot be     *)
(* reached for, and renew_token.py, which obtains a token in its own       *)
(* process and writes it into the token file of the running manager.       *)

HandoffTicks == 3
HandoffTokens == 3
HandoffFailures == 2

HandoffInit ==
    InitWith({ExpiredFile, FreshFile}, {[whatsapp |-> FALSE, webhook |-> FALSE]})

HandoffNext ==
    \/ Tick(HandoffTicks)
    \/ Calls({"c1"})
    \/ Unreachable({"c1"}, HandoffFailures)
    \/ RefreshGrantRejected("c1", HandoffFailures)
    \/ ExtStep(HandoffTokens)

SpecHandoff == HandoffInit /\ [][HandoffNext]_vars

----------------------------------------------------------------------------
(* The background loop with no caller: only the loop renews.               *)

LoopNext ==
    \/ Tick(JobTicks)
    \/ JobStep
    \/ Accepts({Job}, JobTokens)
    \/ Unreachable({Job}, JobFailures)
    \/ RefreshGrantRejected(Job, JobFailures)
    \/ NotificationDone(Job)

SpecLoop == JobInit /\ [][LoopNext]_vars

----------------------------------------------------------------------------
(* Re-authorization: one caller whose renewals fail, and the operator who  *)
(* runs obter_token_bling.py beside the running manager.                   *)

ReloadTicks == 3
ReloadTokens == 2
ReloadFailures == 3

ReloadNext ==
    \/ Tick(ReloadTicks)
    \/ Calls({"c1"})
    \/ Accepts({"c1"}, ReloadTokens)
    \/ Unreachable({"c1"}, ReloadFailures)
    \/ RefreshGrantRejected("c1", ReloadFailures)
    \/ ObterTokenBling(ReloadTokens)

SpecReload == HandoffInit /\ [][ReloadNext]_vars

----------------------------------------------------------------------------
(* Properties *)

\* task t starts a call of refresh_token() in this step
StartsRefreshToken(t) == task[t].pc = "idle" /\ task'[t].op = "refresh_token"

\* the manager is in its error state and inside the backoff window
InBackoff ==
    /\ mgr.error_state
    /\ mgr.last_error_time # NoTime
    /\ now - mgr.last_error_time <= CurrentBackoffSeconds(mgr.consecutive_failures)

\* C1: after a step in which a renewal succeeded (a refresh grant, a credential grant
\* or an authorization-code exchange was accepted, stored and saved),
\* consecutive_failures is 0 and error_state is False, whatever they were before.
C1_RenewalResetsRecoveryState ==
    hist.event # "none" => mgr.consecutive_failures = 0 /\ ~mgr.error_state

\* a renewal succeeded in an error state with the alert threshold of failures reached
C1_Witness ==
    /\ hist.event # "none"
    /\ hist.was_error
    /\ hist.was_failures >= max_failures_before_alert

\* C2: a refresh_token() call made in the error state while the time since
\* last_error_time does not exceed the backoff window returns False at once, has sent
\* no request (refresh grant, credential grant, webhook) and leaves
\* consecutive_failures and last_error_time as they were.
C2_BackoffSkipsRenewal ==
    [][\A t \in Callers :
          StartsRefreshToken(t) /\ InBackoff =>
              /\ task'[t].pc = "idle"
              /\ ~task'[t].res.ok
              /\ task'[t].reqs = << >>
              /\ mgr'.consecutive_failures = mgr.consecutive_failures
              /\ mgr'.last_error_time = mgr.last_error_time]_vars

\* refresh_token() was refused exactly at the end of the backoff window
C2_Witness ==
    \E t \in Callers :
        /\ task[t].op = "refresh_token" /\ task[t].pc = "idle"
        /\ ~task[t].res.ok /\ task[t].reqs = << >>
        /\ InBackoff
        /\ now - mgr.last_error_time = CurrentBackoffSeconds(mgr.consecutive_failures)

\* C3: no request to the authorization server is in flight while the task that sent
\* it holds _token_lock.
C3_NoRequestUnderLock ==
    \A t \in Tasks : task[t].pc \in {"cc_post", "rf_post"} => mgr.token_lock # t

\* task t is suspended inside the refresh_token() of a get_valid_token() call
RenewalInFlight(t) ==
    task[t].op = "get_valid_token" /\ task[t].pc \in {"rf_sleep", "notify_send"}

\* a record that is the body of one 200 response: all fields present, and the refresh
\* token, if any, issued together with the access token
CompleteResponse(d) ==
    /\ Has(d, "access_token") /\ Has(d, "expires_in") /\ Has(d, "created_at")
    /\ Has(d, "refresh_token") => d.refresh_token = d.access_token

\* C4: while one caller's get_valid_token() has a renewal in flight, the
\* get_valid_token() of the other caller is never stuck (both calls can end), and
\* the persisted record and the record in memory are each one complete response.
C4_ConcurrentCallsEnd ==
    \A t, u \in Callers :
        t # u /\ RenewalInFlight(t) /\ task[u].op = "get_valid_token" =>
            /\ task[u].pc # "blocked" /\ ~mgr.hung
            /\ mgr.token_file \in {NoFile, BadFile} \/ CompleteResponse(mgr.token_file)
            /\ Falsy(mgr.token_data) \/ CompleteResponse(mgr.token_data)

\* C5: a token returned by get_valid_token() is never older (lower in issue order)
\* than the token of the record that was in the token file when the call began.
C5_NeverStalerThanPersisted ==
    \A t \in Callers :
        task[t].op = "get_valid_token" /\ task[t].pc = "idle" /\ task[t].res.ok =>
            task[t].res.token >= task[t].start_tok

\* the record has a refresh token and expired, at most 12 hours ago
ExpiredRecently(d, t) ==
    /\ ~Falsy(d) /\ Has(d, "refresh_token") /\ Has(d, "created_at") /\ Has(d, "expires_in")
    /\ t > d.created_at + d.expires_in
    /\ t <= d.created_at + d.expires_in + LongExpired

\* the record has a refresh token and expired more than 12 hours ago
ExpiredLongAgo(d, t) ==
    /\ ~Falsy(d) /\ Has(d, "refresh_token") /\ Has(d, "created_at") /\ Has(d, "expires_in")
    /\ t > d.created_at + d.expires_in + LongExpired

\* C6: refresh_token() called on a healthy manager whose record has a refresh token
\* and expired less than 12 hours ago sends a refresh grant first; when that is
\* answered invalid_grant and the credential grant sent next is accepted, the call
\* returns True, the record stored and saved is the credential-grant response, without
\* a refresh_token, and consecutive_failures is 0.
C6_InvalidGrantFallsBackToCredentialGrant ==
    [][\A t \in Callers :
          /\ /\ StartsRefreshToken(t)
             /\ ~mgr.error_state /\ mgr.consecutive_failures = 0
             /\ ExpiredRecently(mgr.token_data, now)
             => task'[t].pc = "rf_post" /\ task'[t].reqs = <<"rg">>
          /\ /\ task[t].op = "refresh_token" /\ task[t].pc = "cc_post"
             /\ task[t].reqs = <<"rg", "cc">>
             /\ issued' = issued + 1
             => /\ task'[t].pc = "idle" /\ task'[t].res.ok
                /\ mgr'.token_data = TokenResponse(issued', mgr'.token_data.expires_in, FALSE, now)
                /\ mgr'.token_file = mgr'.token_data
                /\ mgr'.consecutive_failures = 0]_vars

\* the fallback happened: refresh grant, invalid_grant, credential grant accepted
C6_Witness ==
    \E t \in Callers :
        /\ task[t].op = "refresh_token" /\ task[t].pc = "idle" /\ task[t].res.ok
        /\ task[t].reqs = <<"rg", "cc">>
        /\ hist.event = "credential_grant" /\ hist.was_error /\ hist.was_failures = 1
        /\ ~Has(mgr.token_data, "refresh_token")

\* C7: a permitted refresh_token() call on a record that expired more than 12 hours
\* ago sends a credential grant as its first request; when that is accepted the call
\* returns True and has sent no refresh grant.
C7_CredentialGrantFirstWhenLongExpired ==
    [][\A t \in Callers :
          /\ StartsRefreshToken(t) /\ ~InBackoff /\ ExpiredLongAgo(mgr.token_data, now)
             => task'[t].pc = "cc_post" /\ task'[t].reqs = <<"cc">>
          /\ /\ task[t].op = "refresh_token" /\ task[t].pc = "cc_post"
             /\ task[t].reqs = <<"cc">>
             /\ ExpiredLongAgo(mgr.token_data, now)
             /\ issued' = issued + 1
             => task'[t].pc = "idle" /\ task'[t].res.ok /\ task'[t].reqs = <<"cc">>]_vars

\* C8: in a run that started healthy, in which every failure was an invalid_grant
\* answer and every notification was delivered: below 3 consecutive failures no
\* notification was sent, at 3 exactly one was sent, and no notification was sent
\* less than min_notification_interval minutes after another one.
C8_OneAlertPerInterval ==
    hist.only_ig /\ cfg.whatsapp =>
        /\ mgr.consecutive_failures < max_failures_before_alert => hist.notif_sent = 0
        /\ /\ mgr.consecutive_failures = max_failures_before_alert
           /\ \A t \in Tasks : task[t].pc # "notify_send"
           => hist.notif_sent = 1
        /\ ~hist.burst

\* C9: _is_token_expired_or_expiring_soon(threshold) answers True exactly when the
\* record is None or empty, or lacks expires_in or created_at, or
\* created_at + expires_in - now <= threshold; equality counts as expiring.
C9_StalenessIsExact ==
    probe.called =>
        LET d == mgr.token_data
        IN  probe.answer <=>
                \/ d \in {NoneData, EmptyDict}
                \/ "expires_in" \notin DOMAIN d
                \/ "created_at" \notin DOMAIN d
                \/ d.created_at + d.expires_in - probe.at <= probe.threshold_seconds

\* the validator answered True for a record whose remaining time equals the threshold
C9_Witness ==
    /\ probe.called /\ probe.answer
    /\ ~Falsy(mgr.token_data)
    /\ Has(mgr.token_data, "expires_in") /\ Has(mgr.token_data, "created_at")
    /\ mgr.token_data.created_at + mgr.token_data.expires_in - probe.at
           = probe.threshold_seconds
    /\ probe.threshold_seconds = DefaultThreshold

\* C10: a record loaded with a created_at more than 3600 s ahead of the clock is
\* expiring for the 600 s threshold of get_valid_token and for the 1800 s threshold
\* of the renewal job, whatever its expires_in.
C10_FutureStampIsStale ==
    hist.skew_loaded =>
        /\ IsTokenExpiredOrExpiringSoon(mgr.token_data, DefaultThreshold, now)
        /\ IsTokenExpiredOrExpiringSoon(mgr.token_data, BackgroundThreshold, now)

Last(q) == q[Len(q)]

\* task t gets a failure from the server in this step: an error status, a body that
\* cannot be parsed, a timeout or a connection error, and no token is issued
ServerFails(t) ==
    /\ task[t].pc \in {"cc_post", "rf_post", "ac_post"}
    /\ task'[t] # task[t]
    /\ issued' = issued

\* C11: no call of get_valid_token, refresh_token or create_token_from_auth_code ends
\* with an exception; a refresh_token or create_token_from_auth_code call that ends on
\* a failure of the server returns False, a get_valid_token call that ends on one
\* returns None or the token in memory; and while the token file is missing or
\* unparsable and nothing was renewed the record in memory is None or empty.
C11_NothingRaises ==
    /\ mgr.token_file \in {NoFile, BadFile} => Falsy(mgr.token_data)
    /\ [][/\ mgr'.token_file \in {NoFile, BadFile} => Falsy(mgr'.token_data)
          /\ \A t \in Callers :
                /\ task'[t].pc = "idle" => ~task'[t].res.raised
                /\ ServerFails(t) /\ task'[t].pc = "idle" =>
                      IF task'[t].op = "get_valid_token"
                      THEN task'[t].res.ok =>
                              task'[t].res.token = AccessTokenOf(mgr'.token_data)
                      ELSE ~task'[t].res.ok]_vars

\* a refresh_token call ended False on a failure of its refresh grant
C11_Witness ==
    \E t \in Callers :
        /\ task[t].op = "refresh_token" /\ task[t].pc = "idle"
        /\ ~task[t].res.ok /\ task[t].reqs # << >>
        /\ Last(task[t].reqs) = "rg"
        /\ mgr.last_error_time = now
        /\ ~mgr.error_state

\* C12: at most one loop task is alive at any time, it is the task of the manager's
\* running flag, and a start_renewal_job() called while a loop is running creates no
\* task and leaves the loop and its interval as they are.
C12_OneRenewalLoop ==
    /\ mgr.job_tasks <= 1
    /\ mgr.renewal_running <=> mgr.job_tasks = 1
    /\ [][/\ mgr'.job_tasks <= 1
          /\ mgr'.renewal_running <=> mgr'.job_tasks = 1
          /\ mgr.renewal_running /\ hist'.job_call \in {"started", "start_skipped"} =>
                /\ mgr'.job_tasks = mgr.job_tasks
                /\ mgr'.job_chunks = mgr.job_chunks
                /\ task'[Job] = task[Job]]_vars

\* start_renewal_job() returned early while the loop slept with another interval
C12_Witness ==
    /\ hist.job_call = "start_skipped"
    /\ task[Job].pc = "job_sleep"
    /\ mgr.job_tasks = 1
    /\ mgr.job_chunks = Chunks(30)

\* C13: stop_renewal_job() returns in every state the event loop can call it in; when
\* no loop is running it creates no task and leaves every field of the manager as it
\* is; and after it returned the stopped loop does not hold the token lock.
C13_StopIsSafe ==
    [][hist'.job_call \in {"stopped", "stop_skipped"} =>
          /\ ~mgr'.renewal_running
          /\ task'[Job].pc = "no_job"
          /\ mgr'.token_lock # Job
          /\ ~mgr.renewal_running =>
                /\ hist'.job_call = "stop_skipped"
                /\ mgr' = mgr
                /\ task'[Job] = task[Job]]_vars

\* the loop was stopped in the retry pause of its refresh_token()
C13_Witness ==
    /\ hist.job_call = "stopped"
    /\ mgr.consecutive_failures > 0
    /\ task[Job].pc = "no_job"
    /\ mgr.token_lock = NoTask

\* stop_renewal_job() was called when no loop was ever started
C13_WitnessNeverStarted ==
    /\ hist.job_call = "stop_skipped"
    /\ mgr.job_tasks = 0

\* C14: when a refresh_token() call has ended in failure and left consecutive_failures
\* above zero, the manager is in the error state.
C14_FailureEntersErrorState ==
    \A t \in Callers :
        /\ task[t].pc = "idle" /\ task[t].op = "refresh_token"
        /\ ~task[t].res.ok
        /\ mgr.consecutive_failures > 0
        => mgr.error_state

\* the record in memory carries no refresh token
NoRefreshToken(d) == Falsy(d) \/ ~Has(d, "refresh_token")

\* C15: a refresh_token() or get_valid_token() call that needs a renewal while the
\* record in memory has no refresh token sends a credential grant first, and when the
\* server accepts it the call ends with success (True, or the new access token) and
\* the new record is in memory and in the token file.
C15_CredentialGrantWithoutRefreshToken ==
    [][\A t \in Callers :
          /\ /\ task[t].pc = "idle" /\ task'[t].op \in {"refresh_token", "get_valid_token"}
             /\ NoRefreshToken(mgr'.token_data)
             /\ task'[t].pc \in BlockingPcs
             => task'[t].pc = "cc_post" /\ task'[t].reqs = <<"cc">>
          /\ /\ task[t].op \in {"refresh_token", "get_valid_token"}
             /\ task[t].pc = "cc_post" /\ task[t].reqs = <<"cc">>
             /\ NoRefreshToken(mgr.token_data)
             /\ issued' = issued + 1
             => /\ task'[t].pc = "idle" /\ task'[t].res.ok
                /\ task'[t].op = "get_valid_token" => task'[t].res.token = issued'
                /\ AccessTokenOf(mgr'.token_data) = issued'
                /\ mgr'.token_file = mgr'.token_data]_vars

\* C16: a refresh_token() or get_valid_token() call that starts while the manager is
\* in the error state (entered on an invalid_grant answer) and sends a request sends
\* a credential grant first, not a refresh grant with the refresh token in memory.
C16_NoRefreshGrantAfterInvalidGrant ==
    [][\A t \in Callers :
          /\ task[t].pc = "idle" /\ task'[t].op \in {"refresh_token", "get_valid_token"}
          /\ mgr.error_state
          /\ task'[t].pc \in BlockingPcs
          => task'[t].pc = "cc_post" /\ task'[t].reqs = <<"cc">>]_vars

\* the window the specification gives, in minutes
ClaimedWindowMinutes(failures) == Min(15 * 2 ^ (failures - 1), 120)

\* C17: in the error state after f >= 1 consecutive failures the backoff window is
\* min(15 * 2^(f-1), 120) minutes (15, 30, 60, 120, 120, ...): it does not shrink
\* when f grows, it never exceeds 120 minutes, and _should_attempt_recovery permits
\* an attempt exactly when more than the window has passed since last_error_time.
C17_BackoffWindow ==
    LET f == mgr.consecutive_failures
    IN  mgr.error_state /\ f >= 1 =>
            /\ CurrentBackoffSeconds(f) = ClaimedWindowMinutes(f) * 60
            /\ CurrentBackoffSeconds(f) <= CurrentBackoffSeconds(f + 1)
            /\ CurrentBackoffSeconds(f) <= 120 * 60
            /\ probe.called =>
                  (probe.answer <=>
                      probe.at - mgr.last_error_time > ClaimedWindowMinutes(f) * 60)

\* after 5 failures an attempt was refused exactly 120 minutes after the last failure
C17_Witness ==
    /\ probe.called /\ ~probe.answer
    /\ mgr.error_state /\ mgr.consecutive_failures = 5
    /\ probe.at - mgr.last_error_time = 7200

\* task t is in _attempt_token_recovery and gets the answer that ends its step 1
\* (the credential grant) or its step 2 (the webhook)
InRecovery(t) ==
    \/ task[t].pc = "cc_post" /\ Head(task[t].stack) = "rec_cc"
    \/ task[t].pc = "rec_webhook"

RecordDeleted ==
    /\ mgr.token_file = NoFile /\ mgr.backup_file # NoFile
    /\ mgr.token_data = NoneData

\* C19: once the recovery has deleted the token file, a get_valid_token() call returns
\* None and sends no request to the authorization server, until
\* create_token_from_auth_code() has succeeded; a get_valid_token() call made after
\* that success, while the new token is valid, returns the new token.
C19_DeletedUntilAuthCode ==
    [][\A t \in Callers :
          task[t].pc = "idle" /\ task'[t].op = "get_valid_token" =>
              /\ RecordDeleted =>
                    /\ task'[t].pc = "idle" /\ ~task'[t].res.ok
                    /\ task'[t].reqs = << >>
              /\ /\ mgr.backup_file # NoFile /\ ~Falsy(mgr.token_data)
                 /\ hist.event = "auth_code"
                 => /\ task'[t].pc = "idle" /\ task'[t].res.ok
                    /\ task'[t].res.token = AccessTokenOf(mgr.token_data)]_vars

\* task t has sent the request of a renewal strategy and gets its outcome in this step
RenewalRequestOf(t) ==
    task[t].pc \in {"rf_post", "cc_post"} /\ task'[t] # task[t]

\* after the step the same request of task t is about to be sent again
RetryPending(t) ==
    /\ task'[t].stack = task[t].stack
    /\ task'[t].pc \in {"rf_sleep", task[t].pc}

\* C20: a refresh grant or a credential grant that fails with a Timeout or a
\* ConnectionError is sent again, up to 3 times in total, and one that is answered
\* with an error status is not sent again.
C20_BothStrategiesRetryConnectionErrors ==
    [][\A t \in Callers :
          RenewalRequestOf(t) =>
              /\ hist'.failure = "connection" =>
                    LET sent == IF task[t].pc = "rf_post" THEN task[t].attempt + 1 ELSE 1
                    IN  RetryPending(t) <=> sent < 3
              /\ hist'.failure = "status" => ~RetryPending(t)]_vars

\* the refresh grant taken alone does retry that way (lines 297-316)
RefreshGrantRetriesConnectionErrors ==
    [][\A t \in Callers :
          RenewalRequestOf(t) /\ task[t].pc = "rf_post" =>
              /\ hist'.failure = "connection" =>
                    (RetryPending(t) <=> task[t].attempt + 1 < 3)
              /\ hist'.failure = "status" => ~RetryPending(t)]_vars

\* the call of task t has ended in failure (False, or None) without an exception
EndedInFailure(t, op) ==
    /\ task[t].pc = "idle" /\ task[t].op = op
    /\ ~task[t].res.ok /\ ~task[t].res.raised

\* C21: a refresh_token() call that was not skipped by the backoff and ended in
\* failure has raised consecutive_failures by exactly one, however many requests it
\* sent; and a get_valid_token() call that sent a renewal request and returned None
\* has raised it by one or more.
C21_FailuresAreCounted ==
    \A t \in Callers :
        /\ EndedInFailure(t, "refresh_token") /\ ~(task[t].reqs = << >> /\ InBackoff)
           => mgr.consecutive_failures = task[t].start_failures + 1
        /\ EndedInFailure(t, "get_valid_token") /\ task[t].reqs # << >>
           => mgr.consecutive_failures >= task[t].start_failures + 1

\* a notification was sent less than min_notification_interval minutes ago
NotifiedRecently ==
    /\ mgr.last_notification_time # NoTime
    /\ now - mgr.last_notification_time < min_notification_interval * 60

\* C22: when a refresh grant fails (an error status of any kind, an unparsable answer
\* or the last connection error) and the failure brings consecutive_failures to 3 or
\* more, a notification is sent to the messaging client unless one was sent less than
\* 30 minutes ago; and no notification is sent less than 30 minutes after another.
C22_AlertOnEveryFailureKind ==
    [][/\ \A t \in Callers :
             /\ task[t].pc = "rf_post"
             /\ mgr'.consecutive_failures = mgr.consecutive_failures + 1
             /\ mgr'.consecutive_failures >= max_failures_before_alert
             /\ cfg.whatsapp /\ ~NotifiedRecently
             => task'[t].pc = "notify_send"
       /\ ~hist'.burst]_vars

\* the background loop wakes in this step: it runs _renew_if_needed
JobWakes ==
    /\ task[Job].pc \in {"job_new", "job_sleep"}
    /\ task'[Job] # task[Job]
    /\ hist'.job_call = "none"

\* C23: a wake of the background loop clears error_state exactly when the manager is
\* in the error state and the backoff window is over, and changes nothing else of the
\* recovery state; it sends no request when the record is not stale under the 1800 s
\* margin (the loop is back in its while loop, at job_sleep or job_spin), and sends
\* one when the record is stale, has a refresh token and the manager is not in
\* backoff; a wake inside the backoff window sends no request and leaves the manager
\* as it is.
C23_WakeChecksBackoffThenStaleness ==
    [][JobWakes =>
          LET stale == IsTokenExpiredOrExpiringSoon(mgr.token_data, 1800, now)
          IN  /\ mgr'.error_state <=> mgr.error_state /\ InBackoff
              /\ mgr'.consecutive_failures = mgr.consecutive_failures
                    \/ (mgr.consecutive_failures = 0 /\ NoRefreshToken(mgr.token_data))
              /\ ~stale => /\ task'[Job].pc \in {"job_sleep", "job_spin"}
                           /\ mgr' = [mgr EXCEPT !.error_state = mgr'.error_state]
              /\ stale /\ ~InBackoff /\ ~NoRefreshToken(mgr.token_data)
                    => task'[Job].pc \in {"rf_post", "cc_post"}
              /\ InBackoff => task'[Job].pc \in {"job_sleep", "job_spin"} /\ mgr' = mgr]_vars

\* the loop woke inside the backoff window with an expired record and went back to
\* sleep
C23_Witness ==
    /\ task[Job].pc = "job_sleep" /\ task[Job].wake_at = now + check_interval
    /\ InBackoff
    /\ IsTokenExpiredOrExpiringSoon(mgr.token_data, 1800, now)
    /\ mgr.last_error_time < now
    /\ mgr.consecutive_failures < max_failures_before_alert
    /\ hist.job_call = "none"

\* another process has put a record into the token file that the manager has not
\* loaded: it has another token than the record in memory and more than the 600 s
\* margin left
FreshRecordHandedOff ==
    /\ mgr.file_modified
    /\ mgr.token_file \notin {NoFile, BadFile}
    /\ AccessTokenOf(mgr.token_file) # AccessTokenOf(mgr.token_data)
    /\ ~IsTokenExpiredOrExpiringSoon(mgr.token_file, DefaultThreshold, now)
    /\ ~LoadClamps(mgr, now)

\* C24: a get_valid_token() call made when another process has replaced the token
\* file by a fresh record returns the access token of that record and sends no
\* request, whatever error_state and consecutive_failures are.
C24_HandoffIsPickedUp ==
    [][\A t \in Callers :
          task[t].pc = "idle" /\ task'[t].op = "get_valid_token" /\ FreshRecordHandedOff
          => /\ task'[t].pc = "idle" /\ task'[t].res.ok
             /\ task'[t].res.token = AccessTokenOf(mgr.token_file)
             /\ task'[t].reqs = << >>]_vars

\* C25: no step of a task reads or writes the record in memory (_token_data) without
\* holding _token_lock.
C25_RecordAccessedUnderLock ==
    ~hist.unlocked_access

\* the manager holds a fresh record and its recovery state is clean
Recovered ==
    /\ ~IsTokenExpiredOrExpiringSoon(mgr.token_data, BackgroundThreshold, now)
    /\ mgr.consecutive_failures = 0 /\ ~mgr.error_state
    /\ ~mgr.hung

\* C26, as a property of finite runs: with the loop alone, a wake that finds the
\* record stale outside the backoff window sends a renewal request, and a credential
\* grant that the server accepts leaves the manager recovered; without either the
\* loop cannot end an outage however long the server accepts.
C26_LoopRecovers ==
    [][/\ /\ JobWakes
          /\ IsTokenExpiredOrExpiringSoon(mgr.token_data, BackgroundThreshold, now)
          /\ ~InBackoff
          => task'[Job].pc \in {"cc_post", "rf_post"}
       /\ task[Job].pc = "cc_post" /\ issued' = issued + 1 => Recovered']_vars

\* the record in memory has an access token and has not expired yet
HoldsUnexpiredToken ==
    /\ ~Falsy(mgr.token_data) /\ Has(mgr.token_data, "access_token")
    /\ ~IsTokenExpiredOrExpiringSoon(mgr.token_data, 0, now)

\* C27: when a get_valid_token() call ends and the record in memory has not expired,
\* the call has returned the access token of that record, whatever error_state and
\* consecutive_failures are; it returns None only when no unexpired record is held.
C27_UnexpiredTokenIsReturned ==
    \A t \in Callers :
        task[t].pc = "idle" /\ task[t].op = "get_valid_token" /\ HoldsUnexpiredToken
        => task[t].res.ok /\ task[t].res.token = mgr.token_data.access_token

\* C28: for every interval_hours > 0 the loop is never in a round of its while loop
\* that has no sleep; and a stop_renewal_job() that stopped a loop leaves no loop task,
\* no request of the loop in flight and the running flag down.
C28_LoopSleepsAndStops ==
    [][/\ task'[Job].pc # "job_spin"
       /\ hist'.job_call = "stopped" =>
             /\ task'[Job].pc = "no_job" /\ task'[Job].reqs = << >>
             /\ ~mgr'.renewal_running /\ mgr'.job_tasks = 0]_vars

\* C29: consecutive_failures goes back to 0, and last_error_time back to None, only in
\* a step in which a renewal succeeded; a reload of the token file, the clamp of a
\* future created_at and the repair of a missing one included, and a wake of the
\* background loop leave both as they are.
C29_OnlySuccessResetsFailures ==
    [][(\/ mgr.consecutive_failures > 0 /\ mgr'.consecutive_failures = 0
        \/ mgr.last_error_time # NoTime /\ mgr'.last_error_time = NoTime)
       => hist'.event # "none"]_vars

\* C30: in every reachable state, error_state implies consecutive_failures >= 1 and
\* last_error_time set, so that the exponent consecutive_failures - 1 of line 219 is
\* not negative and the backoff window is at least backoff_minutes (15 minutes).
C30_ErrorStateHasFailure ==
    mgr.error_state =>
        /\ mgr.consecutive_failures >= 1
        /\ mgr.last_error_time # NoTime
        /\ CurrentBackoffSeconds(mgr.consecutive_failures) >= backoff_minutes * 60

\* a renewal succeeded and reset the recovery state, and the next one was answered
\* invalid_grant: the error state is entered at the first failure
C30_Witness ==
    /\ mgr.error_state
    /\ mgr.consecutive_failures = 1
    /\ mgr.last_error_time = now
    /\ AccessTokenOf(mgr.token_data) = 2
    /\ hist.failure = "status"

====
